---- MODULE Spec2Model ----
(***************************************************************************)
(* Model of the Affordable Housing Needs Mapper: the cleaning, column      *)
(* inference, affordability and aggregation functions of utils.py and the  *)
(* income-group segmentation and filter of app.py.                         *)
(*                                                                         *)
(* Floating-point values are modelled as exact rationals extended with     *)
(* NaN and the two infinities (records [k, n, d]); text is modelled as a   *)
(* sequence of one-character strings.  Each function of utils.py has a     *)
(* specification of its own whose Init draws the function's arguments from *)
(* bounded sets and whose action applies the function; the variables of    *)
(* the other functions then stay at Idle.                                  *)
(***************************************************************************)
EXTENDS Integers, Sequences, FiniteSets, TLC

VARIABLES
    ca_df, ca_rent_col, ca_income_col, ca_result,   \* compute_affordability
    cl_df, cl_result,                               \* clean_data
    in_columns, in_address, in_result,              \* infer_columns
    addr, city,                                     \* _derive_city_from_address_series
    es_df, es_threshold, es_result,                 \* estimate_struggling
    ra_df, ra_top_k, ra_result,                     \* recommend_actions
    cached, df, income_group_select, pc             \* app.py script run

vars_ca == <<ca_df, ca_rent_col, ca_income_col, ca_result>>
vars_cl == <<cl_df, cl_result>>
vars_in == <<in_columns, in_address, in_result>>
vars_dc == <<addr, city>>
vars_es == <<es_df, es_threshold, es_result>>
vars_ra == <<ra_df, ra_top_k, ra_result>>
vars_app == <<cached, df, income_group_select, pc>>
vars == <<vars_ca, vars_cl, vars_in, vars_dc, vars_es, vars_ra, vars_app>>

\* Value of the variables of a function the specification at hand does not run.
Idle == [st |-> "idle"]
\* A function has been called and has not returned yet.
Pending == [st |-> "pending"]

IdleCa == ca_df = Idle /\ ca_rent_col = Idle /\ ca_income_col = Idle /\ ca_result = Idle
IdleCl == cl_df = Idle /\ cl_result = Idle
IdleIn == in_columns = Idle /\ in_address = Idle /\ in_result = Idle
IdleDc == addr = Idle /\ city = Idle
IdleEs == es_df = Idle /\ es_threshold = Idle /\ es_result = Idle
IdleRa == ra_df = Idle /\ ra_top_k = Idle /\ ra_result = Idle
IdleApp == cached = Idle /\ df = Idle /\ income_group_select = Idle /\ pc = Idle

(***************************************************************************)
(* Bounds of the model.                                                    *)
(***************************************************************************)
\* Longest table the specifications enumerate exhaustively.
MaxRows == 2
\* Longest column clean_data is given.
MaxCells == 3
\* Largest number of columns of the tables infer_columns is given.
MaxCols == 2
\* Largest top_k recommend_actions is given.
MaxTopK == 3
\* Longest address the specification enumerates exhaustively.
MaxAddrLen == 4

(***************************************************************************)
(* Text: a str is a sequence of one-character strings.                     *)
(***************************************************************************)
UpperChars == <<"A","B","C","D","E","F","G","H","I","J","K","L","M",
                "N","O","P","Q","R","S","T","U","V","W","X","Y","Z">>
LowerChars == <<"a","b","c","d","e","f","g","h","i","j","k","l","m",
                "n","o","p","q","r","s","t","u","v","w","x","y","z">>

LowerChar(c) ==
    IF \E i \in 1..26 : UpperChars[i] = c
    THEN LowerChars[CHOOSE i \in 1..26 : UpperChars[i] = c]
    ELSE c

\* str.lower()
StrLower(s) == [i \in 1..Len(s) |-> LowerChar(s[i])]

\* sub in s
StrContains(s, sub) ==
    \E i \in 0..(Len(s) - Len(sub)) : SubSeq(s, i + 1, i + Len(sub)) = sub

\* s.startswith(p)
StrStartsWith(s, p) == Len(s) >= Len(p) /\ SubSeq(s, 1, Len(p)) = p

(***************************************************************************)
(* Numbers: a float is NaN, +inf, -inf or a rational n/d in lowest terms   *)
(* with d > 0.  A cell of a table may also hold text that is no number.    *)
(***************************************************************************)
NaN == [k |-> "nan", n |-> 0, d |-> 1]
PosInf == [k |-> "inf", n |-> 1, d |-> 1]
NegInf == [k |-> "inf", n |-> -1, d |-> 1]
Text == [k |-> "text", n |-> 0, d |-> 1]

Abs(x) == IF x < 0 THEN -x ELSE x

RECURSIVE GCD(_, _)
GCD(a, b) == IF b = 0 THEN a ELSE GCD(b, a % b)

\* The rational n/d (d # 0) in lowest terms, the sign in the numerator.
Num(n, d) ==
    LET g == GCD(Abs(n), Abs(d))
        s == IF d < 0 THEN -1 ELSE 1
    IN [k |-> "num", n |-> (s * n) \div g, d |-> (s * d) \div g]

Whole(n) == [k |-> "num", n |-> n, d |-> 1]

\* pd.isna / np.isnan
IsNaN(x) == x.k = "nan"

\* x < y on floats: False as soon as one side is NaN.
FLt(x, y) ==
    /\ ~IsNaN(x) /\ ~IsNaN(y)
    /\ IF x.k = "inf" THEN x.n < 0 /\ ~(y.k = "inf" /\ y.n < 0)
       ELSE IF y.k = "inf" THEN y.n > 0
       ELSE x.n * y.d < y.n * x.d

\* x <= y on floats.
FLe(x, y) == ~IsNaN(x) /\ ~IsNaN(y) /\ ~FLt(y, x)

\* x > y on floats.
FGt(x, y) == FLt(y, x)

\* x * y for a finite y # 0.
FMul(x, y) ==
    IF IsNaN(x) THEN NaN
    ELSE IF x.k = "inf" THEN (IF (x.n < 0) = (y.n < 0) THEN PosInf ELSE NegInf)
    ELSE Num(x.n * y.n, x.d * y.d)

\* x / y on floats, as numpy divides: x/0 is +-inf, 0/0 is NaN.
FDiv(x, y) ==
    IF IsNaN(x) \/ IsNaN(y) THEN NaN
    ELSE IF x.k = "inf" /\ y.k = "inf" THEN NaN
    ELSE IF x.k = "inf" THEN (IF (x.n < 0) = (y.n < 0) THEN PosInf ELSE NegInf)
    ELSE IF y.k = "inf" THEN Whole(0)
    ELSE IF y.n = 0 THEN (IF x.n = 0 THEN NaN ELSE IF x.n > 0 THEN PosInf ELSE NegInf)
    ELSE Num(x.n * y.d, x.d * y.n)

\* pd.to_numeric(cell, errors="coerce"): text that is no number becomes NaN.
ToNumeric(v) == IF v.k = "text" THEN NaN ELSE v

\* Series.max(): the largest value that is not NaN, NaN when there is none.
RECURSIVE SeriesMax(_)
SeriesMax(s) ==
    IF s = <<>> THEN NaN
    ELSE LET m == SeriesMax(Tail(s))
         IN IF IsNaN(Head(s)) THEN m
            ELSE IF IsNaN(m) \/ FLt(m, Head(s)) THEN Head(s)
            ELSE m

\* All sequences over S of length lo..hi.
SeqsOf(S, lo, hi) == UNION {[1..n -> S] : n \in lo..hi}

(***************************************************************************)
(* compute_affordability (utils.py).  A table is modelled by the name of   *)
(* its cost column, whether it carries a column Affordability_Index, and   *)
(* its rows; a row holds its cost cell, its income cell (NaN when the      *)
(* table has no income column) and its Affordability_Index cell (NaN when  *)
(* the table has no such column).                                          *)
(***************************************************************************)
\* The argument None of rent_col or income_col.
None == <<"None">>
\* Names of columns.
EstimatedRent == <<"e","s","t","i","m","a","t","e","d","_","r","e","n","t">>
EstimatedIncome == <<"e","s","t","i","m","a","t","e","d","_","i","n","c","o","m","e">>
IncomeName == <<"I","n","c","o","m","e">>
AvgRentMonthlyINR ==
    <<"A","v","g","_","R","e","n","t","_","M","o","n","t","h","l","y","_","I","N","R">>
MONTHLYRENT == <<"M","O","N","T","H","L","Y","_","R","E","N","T">>
RentName == <<"r","e","n","t">>
PriceName == <<"P","r","i","c","e">>
CostNames == {MONTHLYRENT, RentName, PriceName}

\* The names price_cols accepts, compared with c.lower().
PriceColNames ==
    { <<"p","r","i","c","e">>, <<"s","a","l","e","p","r","i","c","e">>,
      <<"h","o","u","s","e","p","r","i","c","e">>,
      <<"h","o","u","s","e","_","p","r","i","c","e">> }

Month == <<"m","o","n","t","h">>

\* Constants of compute_affordability.
MonthsPerYear == 12
SalePriceAbove == 1000000
PriceToRentDivisor == 300
\* The rent-to-income multiple 3.5, as the rational 7/2.
IncomeMultiple == Num(7, 2)
Percent == 100
AffordableBelow == 30
ModerateUpTo == 50

\* Lines 178-186: the cost column used when rent_col is None.
ResolveRentCol(table, rent_col) ==
    IF rent_col = None
    THEN IF StrLower(table.cost_name) \in PriceColNames
         THEN table.cost_name
         ELSE EstimatedRent
    ELSE rent_col

\* IsMonthly with the name compared as written, not lower-cased.
IsMonthly_case_sensitive(rent_col) == StrContains(rent_col, Month)

\* is_monthly = "month" in rent_col.lower()
IsMonthly(rent_col) == StrContains(StrLower(rent_col), Month)

\* pd.to_numeric(df[rent_col], errors="coerce"); estimated_rent is all NaN.
RentSeries(table, rent_col) ==
    [i \in 1..Len(table.rows) |->
        IF rent_col = EstimatedRent THEN NaN ELSE ToNumeric(table.rows[i].cost)]

\* Lines 191-194: the annualized cost.
RentAnnual(series, rent_col) ==
    [i \in 1..Len(series) |->
        IF IsMonthly(rent_col) THEN FMul(series[i], Whole(MonthsPerYear)) ELSE series[i]]

\* LooksLikeSalePrice without the test "not is_monthly".
LooksLikeSalePrice_ignores_monthly(series, rent_col) ==
    LET m == SeriesMax(series)
    IN ~(m.k = "num" /\ m.n = 0) /\ FGt(m, Whole(SalePriceAbove))

\* Line 200: series.max() and series.max() > 1e6 and not is_monthly.
\* NaN is truthy and 0.0 is falsy.
LooksLikeSalePrice(series, rent_col) ==
    LET m == SeriesMax(series)
    IN /\ ~(m.k = "num" /\ m.n = 0)
       /\ FGt(m, Whole(SalePriceAbove))
       /\ ~IsMonthly(rent_col)

\* Lines 199-205: the synthesized annual income.
EstimatedIncomeSeries(series, rent_col) ==
    LET monthly(v) ==
            IF LooksLikeSalePrice(series, rent_col)
            THEN FDiv(v, Whole(PriceToRentDivisor))
            ELSE IF IsMonthly(rent_col) THEN v
            ELSE FDiv(v, Whole(MonthsPerYear))
    IN [i \in 1..Len(series) |->
            FMul(FMul(monthly(series[i]), Whole(MonthsPerYear)), IncomeMultiple)]

\* Lines 196-208: income_series.
IncomeSeries(table, rent_col, income_col) ==
    IF income_col = None
    THEN EstimatedIncomeSeries(RentSeries(table, rent_col), rent_col)
    ELSE [i \in 1..Len(table.rows) |-> ToNumeric(table.rows[i].income)]

\* Line 211: (rent_annual / income_series) * 100.0
ComputedIndex(rent_annual, income_series) ==
    [i \in 1..Len(rent_annual) |->
        FMul(FDiv(rent_annual[i], income_series[i]), Whole(Percent))]

\* Lines 214-216: missing indices are filled from the column Affordability_Index.
FallbackFill(table, index) ==
    IF table.has_pre /\ \E i \in 1..Len(index) : IsNaN(index[i])
    THEN [i \in 1..Len(index) |->
            IF IsNaN(index[i]) THEN ToNumeric(table.rows[i].pre) ELSE index[i]]
    ELSE index

\* classify with the first threshold inclusive: an index of exactly 30 is Affordable.
classify_le(idx) ==
    IF IsNaN(idx) THEN "Unknown"
    ELSE IF FLe(idx, Whole(AffordableBelow)) THEN "Affordable"
    ELSE IF FLe(idx, Whole(ModerateUpTo)) THEN "Moderate"
    ELSE "Expensive"

\* Lines 219-226: classify.
classify(idx) ==
    IF IsNaN(idx) THEN "Unknown"
    ELSE IF FLt(idx, Whole(AffordableBelow)) THEN "Affordable"
    ELSE IF FLe(idx, Whole(ModerateUpTo)) THEN "Moderate"
    ELSE "Expensive"

\* The table compute_affordability returns: the resolved columns (attrs
\* "column_mapping") and, per row, affordability_index and affordability_class.
compute_affordability(table, rent_col, income_col) ==
    LET rc == ResolveRentCol(table, rent_col)
        ic == IF income_col = None THEN EstimatedIncome ELSE income_col
        rent_annual == RentAnnual(RentSeries(table, rc), rc)
        income_series == IncomeSeries(table, rc, income_col)
        index == FallbackFill(table, ComputedIndex(rent_annual, income_series))
    IN [ rent |-> rc,
         income |-> ic,
         rows |-> [i \in 1..Len(index) |->
                     [ affordability_index |-> index[i],
                       affordability_class |-> classify(index[i]) ]] ]

\* The cells the specification enumerates.
CaCosts == {NaN, Text, Whole(0), Whole(300), Whole(1200000)}
CaIncomes == {NaN, Text, Whole(0), Whole(1000)}
CaPres == {NaN, Whole(45)}

CaRow(c, i, p) == [cost |-> c, income |-> i, pre |-> p]

\* Rows of a table with or without an income column and a column Affordability_Index.
CaRows(has_income, has_pre) ==
    { CaRow(c, i, p) : c \in CaCosts,
                       i \in (IF has_income THEN CaIncomes ELSE {NaN}),
                       p \in (IF has_pre THEN CaPres ELSE {NaN}) }

\* The tables of the spec's examples: the monthly rent 20000 against the income
\* 600000, and the indices 29.9, 30.0, 50.0, 50.1 and missing.
CaMonthlyExample ==
    [ cost_name |-> AvgRentMonthlyINR, has_pre |-> FALSE,
      rows |-> << CaRow(Whole(20000), Whole(600000), NaN) >> ]
CaThresholdExample ==
    [ cost_name |-> RentName, has_pre |-> FALSE,
      rows |-> << CaRow(Whole(299), Whole(1000), NaN), CaRow(Whole(300), Whole(1000), NaN),
                  CaRow(Whole(500), Whole(1000), NaN), CaRow(Whole(501), Whole(1000), NaN),
                  CaRow(NaN, Whole(1000), NaN) >> ]

InitCompute ==
    /\ \/ \E name \in CostNames, has_income \in BOOLEAN, has_pre \in BOOLEAN :
            \E rows \in SeqsOf(CaRows(has_income, has_pre), 1, MaxRows) :
                /\ ca_df = [cost_name |-> name, has_pre |-> has_pre, rows |-> rows]
                /\ ca_income_col = IF has_income THEN IncomeName ELSE None
       \/ /\ ca_df \in {CaMonthlyExample, CaThresholdExample}
          /\ ca_income_col = IncomeName
    /\ ca_rent_col \in {ca_df.cost_name, None}
    /\ ca_result = Pending
    /\ IdleCl /\ IdleIn /\ IdleDc /\ IdleEs /\ IdleRa /\ IdleApp

ComputeAffordabilityCall ==
    /\ ca_result = Pending
    /\ ca_result' = compute_affordability(ca_df, ca_rent_col, ca_income_col)
    /\ UNCHANGED <<ca_df, ca_rent_col, ca_income_col>>
    /\ UNCHANGED <<vars_cl, vars_in, vars_dc, vars_es, vars_ra, vars_app>>

SpecCompute == InitCompute /\ [][ComputeAffordabilityCall]_vars

CaDone == ca_result # Idle /\ ca_result # Pending

(***************************************************************************)
(* Claims about compute_affordability.                                     *)
(***************************************************************************)
CaIndex(i) == ca_result.rows[i].affordability_index
CaClass(i) == ca_result.rows[i].affordability_class

\* C1: in the table compute_affordability returns, every row's
\* affordability_class is decided by its affordability_index alone: Unknown iff
\* the index is missing, Affordable iff index < 30, Moderate iff
\* 30 <= index <= 50, Expensive iff index > 50; so 29.9 is Affordable, 30.0 and
\* 50.0 are Moderate and 50.1 is Expensive.
C1_ClassFollowsThresholds ==
    CaDone =>
        \A i \in 1..Len(ca_result.rows) :
            LET x == CaIndex(i)
                c == CaClass(i)
            IN /\ c \in {"Unknown", "Affordable", "Moderate", "Expensive"}
               /\ (c = "Unknown") <=> (x.k = "nan")
               /\ (c = "Affordable") <=>
                    ((x.k = "num" /\ x.n < 30 * x.d) \/ x = NegInf)
               /\ (c = "Moderate") <=>
                    (x.k = "num" /\ 30 * x.d <= x.n /\ x.n <= 50 * x.d)
               /\ (c = "Expensive") <=>
                    ((x.k = "num" /\ x.n > 50 * x.d) \/ x = PosInf)
               /\ (x = Num(299, 10)) => (c = "Affordable")
               /\ (x = Whole(30)) => (c = "Moderate")
               /\ (x = Whole(50)) => (c = "Moderate")
               /\ (x = Num(501, 10)) => (c = "Expensive")

\* C1 witness: the rows with indices 29.9, 30.0, 50.0, 50.1 and missing have been
\* classified Affordable, Moderate, Moderate, Expensive and Unknown.
C1_Witness ==
    /\ CaDone
    /\ ca_df = CaThresholdExample /\ ca_rent_col = RentName
    /\ [i \in 1..5 |-> CaIndex(i)] =
            <<Num(299, 10), Whole(30), Whole(50), Num(501, 10), NaN>>
    /\ [i \in 1..5 |-> CaClass(i)] =
            <<"Affordable", "Moderate", "Moderate", "Expensive", "Unknown">>

\* A cell that is missing or is text that is no number.
Unusable(cell) == cell.k \in {"nan", "text"}

\* C2: every row whose income is zero, missing or non-numeric, or whose cost is
\* missing or non-numeric, gets a missing affordability_index and the class
\* Unknown, and no row of the returned table carries an infinite index.  (Rows
\* whose index the table's own column Affordability_Index fills in are left out
\* of the first part: the fallback fill gives them that value.)
C2_UndefinedDivisionIsMissing ==
    CaDone =>
        \A i \in 1..Len(ca_result.rows) :
            LET r == ca_df.rows[i]
                bad_income == ca_income_col # None
                              /\ (Unusable(r.income) \/ r.income = Whole(0))
                filled == ca_df.has_pre /\ ~Unusable(r.pre)
            IN /\ ((bad_income \/ Unusable(r.cost)) /\ ~filled) =>
                    (IsNaN(CaIndex(i)) /\ CaClass(i) = "Unknown")
               /\ CaIndex(i).k # "inf"

\* The cost columns of the model whose name contains "month" in any case.
MonthlyNamed == {AvgRentMonthlyINR, MONTHLYRENT}

\* C3: with a cost column and an income column given, the index of every row
\* with a numeric cost and a numeric non-zero income is
\* (annualized cost / income) * 100, the annualized cost being 12 * cost exactly
\* when the cost column's name contains "month" in any case and the cost itself
\* otherwise; Avg_Rent_Monthly_INR = 20000 with income 600000 gives 40.0, Moderate.
C3_IndexIsAnnualizedRatio ==
    (CaDone /\ ca_rent_col # None /\ ca_income_col # None) =>
        \A i \in 1..Len(ca_result.rows) :
            LET c == ca_df.rows[i].cost
                m == ca_df.rows[i].income
                x == CaIndex(i)
                factor == IF ca_rent_col \in MonthlyNamed THEN 12 ELSE 1
            IN /\ (c.k = "num" /\ m.k = "num" /\ m.n # 0) =>
                    /\ x.k = "num"
                    /\ x.n * m.n * c.d = 100 * factor * c.n * m.d * x.d
               /\ (ca_rent_col = AvgRentMonthlyINR /\ c = Whole(20000)
                        /\ m = Whole(600000)) =>
                    (x = Whole(40) /\ CaClass(i) = "Moderate")

\* C3 witness: the monthly rent 20000 against the income 600000 has been indexed
\* 40.0 and classified Moderate.
C3_Witness ==
    /\ CaDone
    /\ ca_df = CaMonthlyExample /\ ca_rent_col = AvgRentMonthlyINR
    /\ ca_income_col = IncomeName
    /\ CaIndex(1) = Whole(40) /\ CaClass(1) = "Moderate"

(***************************************************************************)
(* clean_data (utils.py).  The function treats every column on its own;    *)
(* the only quantity a column shares with the table is len(df), the length *)
(* of the column.  A table is modelled by one column: its dtype and its    *)
(* cells.  A cell of a numeric column is a float, a cell of an object      *)
(* column is a str or missing.                                             *)
(***************************************************************************)
Str(chars) == [k |-> "str", s |-> chars]
Missing == [k |-> "nan", s |-> <<>>]

Digits == <<"0","1","2","3","4","5","6","7","8","9">>
IsDigit(c) == \E i \in 1..10 : Digits[i] = c
DigitValue(c) == (CHOOSE i \in 1..10 : Digits[i] = c) - 1

\* The characters of the cells in code-point order, for the order of str.
CharOrder == <<",","0","1","2","3","4","5","6","7","8","9","a","b","c">>
CharRank(c) == CHOOSE i \in 1..Len(CharOrder) : CharOrder[i] = c

\* a < b on str.
RECURSIVE StrLess(_, _)
StrLess(a, b) ==
    IF b = <<>> THEN FALSE
    ELSE IF a = <<>> THEN TRUE
    ELSE IF Head(a) = Head(b) THEN StrLess(Tail(a), Tail(b))
    ELSE CharRank(Head(a)) < CharRank(Head(b))

\* .str.replace(",", "", regex=False)
RECURSIVE RemoveCommas(_)
RemoveCommas(t) ==
    IF t = <<>> THEN <<>>
    ELSE IF Head(t) = "," THEN RemoveCommas(Tail(t))
    ELSE <<Head(t)>> \o RemoveCommas(Tail(t))

RECURSIVE DecimalValue(_, _)
DecimalValue(t, acc) ==
    IF t = <<>> THEN acc ELSE DecimalValue(Tail(t), 10 * acc + DigitValue(Head(t)))

\* pd.to_numeric(text, errors="coerce") of a str of digits, commas and letters:
\* a non-empty run of digits is its value, anything else NaN.
ParseNumber(t) ==
    IF t # <<>> /\ \A i \in 1..Len(t) : IsDigit(t[i])
    THEN Whole(DecimalValue(t, 0))
    ELSE NaN

\* The cells of s that are not missing, in order.
RECURSIVE DropNa(_)
DropNa(s) ==
    IF s = <<>> THEN <<>>
    ELSE IF Head(s).k = "nan" THEN DropNa(Tail(s))
    ELSE <<Head(s)>> \o DropNa(Tail(s))

\* The floats of s sorted ascending (insertion sort).
RECURSIVE InsertSorted(_, _)
InsertSorted(x, s) ==
    IF s = <<>> THEN <<x>>
    ELSE IF FLe(x, Head(s)) THEN <<x>> \o s
    ELSE <<Head(s)>> \o InsertSorted(x, Tail(s))

RECURSIVE SortFloats(_)
SortFloats(s) == IF s = <<>> THEN <<>> ELSE InsertSorted(Head(s), SortFloats(Tail(s)))

\* Series.median(): the middle of the sorted present values, the mean of the two
\* middle ones when their number is even, NaN when there is none.
Median(s) ==
    LET v == SortFloats(DropNa(s))
        n == Len(v)
    IN IF n = 0 THEN NaN
       ELSE IF n % 2 = 1 THEN v[(n + 1) \div 2]
       ELSE Num(v[n \div 2].n * v[n \div 2 + 1].d + v[n \div 2 + 1].n * v[n \div 2].d,
                2 * v[n \div 2].d * v[n \div 2 + 1].d)

\* Series.fillna(value)
FillNa(s, value) == [i \in 1..Len(s) |-> IF s[i].k = "nan" THEN value ELSE s[i]]

\* Series.isna().any()
AnyNa(s) == \E i \in 1..Len(s) : s[i].k = "nan"

\* Series.notna().sum()
NotNaCount(s) == Cardinality({i \in 1..Len(s) : s[i].k # "nan"})

Occurrences(s, x) == Cardinality({i \in 1..Len(s) : s[i] = x})

\* Series.mode(): the most frequent present values, sorted ascending.  The
\* result is given as the set of modes; iloc[0] is its least element.
Modes(s) ==
    LET present == {s[i] : i \in {j \in 1..Len(s) : s[j].k # "nan"}}
    IN {x \in present : \A y \in present : Occurrences(s, y) <= Occurrences(s, x)}

FirstMode(s) == CHOOSE x \in Modes(s) : \A y \in Modes(s) : y = x \/ StrLess(x.s, y.s)

\* The coercion threshold 0.6, as the rational 3/5.
CoercionShare == Num(6, 10)

\* int(0.6 * len(df)): the product truncated to an integer.
RequiredParsed(n) == (CoercionShare.n * n) \div CoercionShare.d

\* Lines 153-159: the imputation of one column; "IndexError" when mode() is
\* empty and iloc[0] raises.
Impute(col) ==
    IF col.dtype = "numeric"
    THEN IF AnyNa(col.cells)
         THEN [status |-> "ok", dtype |-> "numeric",
               cells |-> FillNa(col.cells, Median(col.cells))]
         ELSE [status |-> "ok", dtype |-> "numeric", cells |-> col.cells]
    ELSE IF AnyNa(col.cells)
         THEN IF Modes(col.cells) = {}
              THEN [status |-> "IndexError", dtype |-> "object", cells |-> col.cells]
              ELSE [status |-> "ok", dtype |-> "object",
                    cells |-> FillNa(col.cells, FirstMode(col.cells))]
         ELSE [status |-> "ok", dtype |-> "object", cells |-> col.cells]

\* Line 165: the column as numbers, commas removed.
Coerced(cells) == [i \in 1..Len(cells) |-> ParseNumber(RemoveCommas(cells[i].s))]

\* Line 166: whether the coercion is accepted.
CoercionAccepted(cells) ==
    /\ NotNaCount(Coerced(cells)) > 0
    /\ NotNaCount(Coerced(cells)) >= RequiredParsed(Len(cells))

\* Lines 162-169: the coercion of one imputed column.
Coerce(col) ==
    IF col.dtype = "object" /\ CoercionAccepted(col.cells)
    THEN [status |-> "ok", dtype |-> "numeric",
          cells |-> FillNa(Coerced(col.cells), Median(Coerced(col.cells)))]
    ELSE col

\* clean_data on the one-column table: the cleaned column, or the exception raised.
clean_data(col) ==
    LET imputed == Impute(col)
    IN IF imputed.status = "ok" THEN Coerce(imputed) ELSE imputed

\* The cells the specification enumerates.
ClNumbers == {NaN, Whole(2), Whole(4), Whole(7)}
ClTexts == { Missing, Str(<<"1","2">>), Str(<<"1",",","0","0","0">>), Str(<<"4">>),
             Str(<<"a","b","c">>), Str(<<"b">>) }

InitClean ==
    /\ \/ \E cells \in SeqsOf(ClNumbers, 1, MaxCells) :
            cl_df = [dtype |-> "numeric", cells |-> cells]
       \/ \E cells \in SeqsOf(ClTexts, 1, MaxCells) :
            cl_df = [dtype |-> "object", cells |-> cells]
    /\ cl_result = Pending
    /\ IdleCa /\ IdleIn /\ IdleDc /\ IdleEs /\ IdleRa /\ IdleApp

CleanDataCall ==
    /\ cl_result = Pending
    /\ cl_result' = clean_data(cl_df)
    /\ UNCHANGED cl_df
    /\ UNCHANGED <<vars_ca, vars_in, vars_dc, vars_es, vars_ra, vars_app>>

SpecClean == InitClean /\ [][CleanDataCall]_vars

ClDone == cl_result # Idle /\ cl_result # Pending

(***************************************************************************)
(* Claims about clean_data.                                                *)
(***************************************************************************)
\* C4: for every input table, also one with a column whose values are all
\* missing, clean_data returns a table (it does not raise) in which no column
\* contains a missing value.
C4_NoMissingAfterClean ==
    ClDone =>
        /\ cl_result.status = "ok"
        /\ \A i \in 1..Len(cl_result.cells) : cl_result.cells[i].k # "nan"

\* C5: a non-numeric column is replaced by its numeric coercion only if at
\* least 60% of the table's rows parse as numbers: parsed_count / row_count >= 0.6.
C5_CoercionNeedsSixtyPercent ==
    (ClDone /\ cl_df.dtype = "object" /\ cl_result.status = "ok"
        /\ cl_result.dtype = "numeric") =>
        LET parsed == NotNaCount(Coerced(Impute(cl_df).cells))
        IN 10 * parsed >= 6 * Len(cl_df.cells)

(***************************************************************************)
(* _derive_city_from_address_series (utils.py).  An address is a str or a  *)
(* value that is no str (Missing).  Line breaks are modelled by "\n" and   *)
(* whitespace by the space and the line break.                             *)
(***************************************************************************)
NoneValue == [k |-> "none", s |-> <<>>]
Unknown == Str(<<"U","n","k","n","o","w","n">>)

IsSpace(c) == c \in {" ", "\n"}

RECURSIVE LStrip(_)
LStrip(t) == IF t # <<>> /\ IsSpace(Head(t)) THEN LStrip(Tail(t)) ELSE t

RECURSIVE RStrip(_)
RStrip(t) ==
    IF t # <<>> /\ IsSpace(t[Len(t)]) THEN RStrip(SubSeq(t, 1, Len(t) - 1)) ELSE t

\* str.strip()
Strip(t) == RStrip(LStrip(t))

\* str.split(sep) for a one-character sep: the pieces between the separators,
\* the empty ones too.
RECURSIVE Split(_, _)
Split(t, sep) ==
    IF t = <<>> THEN << <<>> >>
    ELSE IF Head(t) = sep THEN << <<>> >> \o Split(Tail(t), sep)
    ELSE LET r == Split(Tail(t), sep)
         IN << <<Head(t)>> \o Head(r) >> \o Tail(r)

\* str.splitlines(): as split on the line break, without a last empty piece.
SplitLines(t) ==
    LET p == Split(t, "\n")
    IN IF p[Len(p)] = <<>> THEN SubSeq(p, 1, Len(p) - 1) ELSE p

\* [part.strip() for part in lines if part.strip()]
RECURSIVE StrippedNonEmpty(_)
StrippedNonEmpty(lines) ==
    IF lines = <<>> THEN <<>>
    ELSE IF Strip(Head(lines)) = <<>> THEN StrippedNonEmpty(Tail(lines))
    ELSE <<Strip(Head(lines))>> \o StrippedNonEmpty(Tail(lines))

\* "\n".join(parts)
RECURSIVE JoinLines(_)
JoinLines(parts) ==
    IF parts = <<>> THEN <<>>
    ELSE IF Len(parts) = 1 THEN Head(parts)
    ELSE Head(parts) \o <<"\n">> \o JoinLines(Tail(parts))

\* The first line of the normalized text instead of the last.
LastLine_first(text) == Split(text, "\n")[1]

\* Line 63: text.split("\n")[-1]
LastLine(text) == LET p == Split(text, "\n") IN p[Len(p)]

\* Lines 58-69: parse; NoneValue is Python's None.
parse(a) ==
    IF a.k # "str" \/ Strip(a.s) = <<>> THEN NoneValue
    ELSE LET text == JoinLines(StrippedNonEmpty(SplitLines(a.s)))
             last_line == LastLine(text)
         IN IF StrContains(last_line, <<",">>)
            THEN LET c == Strip(Split(last_line, ",")[1])
                 IN IF c = <<>> THEN NoneValue ELSE Str(c)
            ELSE IF Strip(last_line) = <<>> THEN NoneValue ELSE Str(Strip(last_line))

\* Lines 71-73: one cell of address.apply(parse).fillna("Unknown").
DeriveCity(a) == IF parse(a) = NoneValue THEN Unknown ELSE parse(a)

\* The addresses of the spec's examples.
MainStAddress == Str(<<"1","2","3"," ","M","a","i","n"," ","S","t","\n","S","p","r","i","n","g","f","i","e","l","d",","," ","I","L"," ","6","2","7","0","4">>)
SpringfieldCity == Str(<<"S","p","r","i","n","g","f","i","e","l","d">>)
UnitAddress == Str(<<"U","n","i","t"," ","4"," ","S","o","m","e","w","h","e","r","e">>)

AddrChars == {"a", ",", " ", "\n"}
Addresses ==
    {Missing, MainStAddress, UnitAddress}
        \cup {Str(t) : t \in SeqsOf(AddrChars, 0, MaxAddrLen)}

InitDerive ==
    /\ addr \in Addresses
    /\ city = Pending
    /\ IdleCa /\ IdleCl /\ IdleIn /\ IdleEs /\ IdleRa /\ IdleApp

DeriveCityCall ==
    /\ city = Pending
    /\ city' = DeriveCity(addr)
    /\ UNCHANGED addr
    /\ UNCHANGED <<vars_ca, vars_cl, vars_in, vars_es, vars_ra, vars_app>>

SpecDerive == InitDerive /\ [][DeriveCityCall]_vars

DcDone == city # Idle /\ city # Pending

(***************************************************************************)
(* Claims about the derived area label.  The last non-empty line is found  *)
(* by position: it is the stretch between line breaks that holds the last  *)
(* character of the address that is no whitespace.                         *)
(***************************************************************************)
\* Whether the address is text with a character that is no whitespace.
HasText(a) == a.k = "str" /\ \E i \in 1..Len(a.s) : ~IsSpace(a.s[i])

LastInk(t) == CHOOSE i \in 1..Len(t) :
    ~IsSpace(t[i]) /\ \A j \in (i + 1)..Len(t) : IsSpace(t[j])

LineStart(t) == CHOOSE i \in 1..LastInk(t) :
    /\ \A j \in i..LastInk(t) : t[j] # "\n"
    /\ (i = 1 \/ t[i - 1] = "\n")

LineEnd(t) == CHOOSE i \in LastInk(t)..Len(t) :
    /\ \A j \in LastInk(t)..i : t[j] # "\n"
    /\ (i = Len(t) \/ t[i + 1] = "\n")

LastNonEmptyLine(t) == SubSeq(t, LineStart(t), LineEnd(t))

\* The text before the first comma of a line that holds one.
BeforeFirstComma(line) ==
    SubSeq(line, 1, (CHOOSE i \in 1..Len(line) :
                        line[i] = "," /\ \A j \in 1..(i - 1) : line[j] # ",") - 1)

\* C7 as stated: the label is the text before the first comma of the last
\* non-empty line when that line holds a comma, the whole trimmed last non-empty
\* line when it holds none, and Unknown only when the value is blank or no text
\* (texts are compared trimmed).
C7_LabelAsStated ==
    DcDone =>
        IF ~HasText(addr) THEN city = Unknown
        ELSE LET line == LastNonEmptyLine(addr.s)
             IN IF StrContains(line, <<",">>)
                THEN city = Str(Strip(BeforeFirstComma(line)))
                ELSE city = Str(Strip(line))

\* C7 as amended: as stated, but the text before the first comma is trimmed and
\* the label is Unknown also when that text is blank (the last non-empty line
\* starts with a comma); "123 Main St\nSpringfield, IL 62704" gives
\* "Springfield" and "Unit 4 Somewhere" gives itself.
C7_LabelOfAddress ==
    DcDone =>
        /\ IF ~HasText(addr) THEN city = Unknown
           ELSE LET line == LastNonEmptyLine(addr.s)
                IN IF StrContains(line, <<",">>)
                   THEN IF Strip(BeforeFirstComma(line)) = <<>>
                        THEN city = Unknown
                        ELSE city = Str(Strip(BeforeFirstComma(line)))
                   ELSE city = Str(Strip(line))
        /\ (addr = MainStAddress) => (city = SpringfieldCity)
        /\ (addr = UnitAddress) => (city = UnitAddress)

\* C7 witness: the two-line example address has been given the label Springfield.
C7_Witness == DcDone /\ addr = MainStAddress /\ city = SpringfieldCity

(***************************************************************************)
(* infer_columns (utils.py).  A table is modelled by the names of its      *)
(* columns, in order, and the cells of its address column.                 *)
(***************************************************************************)
AddressKey == <<"a","d","d","r","e","s","s">>
DerivedCity == <<"D","e","r","i","v","e","d"," ","C","i","t","y">>
AvgAreaPrefix == <<"a","v","g","."," ","a","r","e","a">>
AreaKey == <<"a","r","e","a">>

\* Lines 93-102: the area keywords, in the order they are tried.
AreaKeys ==
    << <<"n","e","i","g","h","b","o","r","h","o","o","d">>,
       <<"w","a","r","d">>,
       <<"z","o","n","e">>,
       <<"d","i","s","t","r","i","c","t">>,
       <<"c","i","t","y">>,
       <<"l","o","c","a","t","i","o","n">>,
       <<"l","o","c","a","l","i","t","y">>,
       <<"a","r","e","a">> >>

\* Lines 113-119
rent_candidates ==
    << <<"r","e","n","t">>,
       <<"a","v","g","_","r","e","n","t">>,
       <<"a","v","e","r","a","g","e","_","r","e","n","t">>,
       <<"r","e","n","t","_","p","r","i","c","e">>,
       <<"m","o","n","t","h","l","y","_","r","e","n","t">>,
       <<"r","e","n","t","_","p","e","r","_","m","o","n","t","h">>,
       <<"h","o","u","s","e","p","r","i","c","e">>,
       <<"h","o","u","s","e","_","p","r","i","c","e">>,
       <<"p","r","i","c","e">>,
       <<"s","a","l","e","p","r","i","c","e">> >>
income_candidates ==
    << <<"i","n","c","o","m","e">>,
       <<"a","v","g","_","i","n","c","o","m","e">>,
       <<"a","v","e","r","a","g","e","_","i","n","c","o","m","e">>,
       <<"m","e","d","i","a","n","_","i","n","c","o","m","e">>,
       <<"h","o","u","s","e","h","o","l","d","_","i","n","c","o","m","e">> >>
\* Line 133
GeometryKeys ==
    << <<"g","e","o","m","e","t","r","y">>,
       <<"w","k","t">>,
       <<"g","e","o","j","s","o","n">>,
       <<"g","e","o","m">> >>

\* Line 82: cols = {c.lower(): c for c in df.columns}, as the sequence of the
\* dict's items: a key keeps the place of its first insertion and takes the
\* value of its last.
RECURSIVE ColsFrom(_, _)
ColsFrom(columns, items) ==
    IF columns = <<>> THEN items
    ELSE LET c == Head(columns)
             key == StrLower(c)
         IN IF \E i \in 1..Len(items) : items[i].k = key
            THEN ColsFrom(Tail(columns),
                    [i \in 1..Len(items) |->
                        IF items[i].k = key THEN [k |-> key, orig |-> c] ELSE items[i]])
            ELSE ColsFrom(Tail(columns), Append(items, [k |-> key, orig |-> c]))

Cols(columns) == ColsFrom(columns, <<>>)

\* Lines 103-109: the first item of cols the keyword matches, None without one.
RECURSIVE AreaMatch(_, _)
AreaMatch(key, items) ==
    IF items = <<>> THEN None
    ELSE IF StrContains(Head(items).k, key)
            /\ ~(key = AreaKey /\ StrStartsWith(Head(items).k, AvgAreaPrefix))
         THEN Head(items).orig
         ELSE AreaMatch(key, Tail(items))

\* Lines 93-111: the keywords tried in order until one matches a column with a
\* name that is not empty.
RECURSIVE CandidateArea(_, _)
CandidateArea(keys, items) ==
    IF keys = <<>> THEN None
    ELSE LET m == AreaMatch(Head(keys), items)
         IN IF m # None /\ m # <<>> THEN m ELSE CandidateArea(Tail(keys), items)

\* Lines 121-126: find_col.
RECURSIVE FirstContaining(_, _)
FirstContaining(cand, items) ==
    IF items = <<>> THEN None
    ELSE IF StrContains(Head(items).k, cand) THEN Head(items).orig
    ELSE FirstContaining(cand, Tail(items))

RECURSIVE find_col(_, _)
find_col(cands, items) ==
    IF cands = <<>> THEN None
    ELSE LET m == FirstContaining(Head(cands), items)
         IN IF m # None THEN m ELSE find_col(Tail(cands), items)

\* Lines 132-139: the geometry column, matched by its whole lower-cased name.
RECURSIVE GeomMatch(_, _)
GeomMatch(key, items) ==
    IF items = <<>> THEN None
    ELSE IF Head(items).k = key THEN Head(items).orig
    ELSE GeomMatch(key, Tail(items))

RECURSIVE GeomCol(_, _)
GeomCol(keys, items) ==
    IF keys = <<>> THEN None
    ELSE LET m == GeomMatch(Head(keys), items)
         IN IF m # None /\ m # <<>> THEN m ELSE GeomCol(Tail(keys), items)

HasKey(items, key) == \E i \in 1..Len(items) : items[i].k = key

\* infer_columns: the tuple returned, and the cells of the column Derived City
\* when the call adds it to the table (<<>> when it does not).
infer_columns(columns, address) ==
    LET cols == Cols(columns)
        by_address == HasKey(cols, AddressKey)
        derives == by_address /\ \A i \in 1..Len(columns) : columns[i] # DerivedCity
        candidate_area == IF by_address THEN DerivedCity
                          ELSE CandidateArea(AreaKeys, cols)
    IN [ area |-> IF candidate_area # None /\ candidate_area # <<>>
                  THEN candidate_area ELSE columns[1],
         rent |-> find_col(rent_candidates, cols),
         income |-> find_col(income_candidates, cols),
         geom |-> GeomCol(GeometryKeys, cols),
         derived |-> IF derives
                     THEN [i \in 1..Len(address) |-> DeriveCity(address[i])]
                     ELSE <<>> ]

\* The column names the specification enumerates.
ColumnNames ==
    { <<"C","i","t","y">>,
      <<"C","I","T","Y">>,
      <<"W","a","r","d">>,
      <<"Z","o","n","e">>,
      <<"A","r","e","a">>,
      <<"A","v","g","."," ","A","r","e","a"," ","I","n","c","o","m","e">>,
      <<"M","o","n","t","h","l","y","_","R","e","n","t">>,
      <<"A","d","d","r","e","s","s">>,
      <<"D","e","r","i","v","e","d"," ","C","i","t","y">>,
      <<"g","e","o","m","e","t","r","y">>,
      <<"i","d">> }

HasAddressColumn(columns) ==
    \E i \in 1..Len(columns) : StrLower(columns[i]) = AddressKey

InitInfer ==
    /\ in_columns \in SeqsOf(ColumnNames, 1, MaxCols)
    /\ in_address \in IF HasAddressColumn(in_columns)
                      THEN {<<MainStAddress>>, <<Missing>>}
                      ELSE {<<>>}
    /\ in_result = Pending
    /\ IdleCa /\ IdleCl /\ IdleDc /\ IdleEs /\ IdleRa /\ IdleApp

InferColumnsCall ==
    /\ in_result = Pending
    /\ in_result' = infer_columns(in_columns, in_address)
    /\ UNCHANGED <<in_columns, in_address>>
    /\ UNCHANGED <<vars_ca, vars_cl, vars_dc, vars_es, vars_ra, vars_app>>

SpecInfer == InitInfer /\ [][InferColumnsCall]_vars

InDone == in_result # Idle /\ in_result # Pending

(***************************************************************************)
(* Claims about infer_columns.                                             *)
(***************************************************************************)
\* Whether a column may be chosen for an area keyword.
Eligible(name, key) ==
    /\ StrContains(StrLower(name), key)
    /\ ~(key = AreaKey /\ StrStartsWith(StrLower(name), AvgAreaPrefix))

\* C6: without a column named "address" in any case, the area column is the
\* first column, in column order, whose lower-cased name contains the
\* highest-priority keyword that any eligible column contains (a name starting
\* with "avg. area" is not eligible for "area"); with no match it is the first
\* column of the table.
C6_AreaIsFirstMatchByPriority ==
    (InDone /\ ~HasAddressColumn(in_columns)) =>
        LET matched == {p \in 1..Len(AreaKeys) :
                            \E i \in 1..Len(in_columns) :
                                Eligible(in_columns[i], AreaKeys[p])}
        IN IF matched = {} THEN in_result.area = in_columns[1]
           ELSE LET best == CHOOSE p \in matched : \A q \in matched : p <= q
                    first == CHOOSE i \in 1..Len(in_columns) :
                                /\ Eligible(in_columns[i], AreaKeys[best])
                                /\ \A j \in 1..(i - 1) :
                                        ~Eligible(in_columns[j], AreaKeys[best])
                IN in_result.area = in_columns[first]

(***************************************************************************)
(* estimate_struggling (utils.py).  A computed table is modelled by its    *)
(* rows; a row holds its area cell (a str or missing) and its              *)
(* affordability_index.                                                    *)
(***************************************************************************)
AggRow(a, x) == [area |-> a, affordability_index |-> x]

AreaA == Str(<<"a">>)
AreaB == Str(<<"b">>)

\* series > threshold, with the comparison inclusive.
Struggling_ge(x, threshold) == FLe(threshold, x)

\* Line 317: series > threshold for one row.
Struggling(x, threshold) == FGt(x, threshold)

\* pd.to_numeric(df["affordability_index"], errors="coerce")
IndexSeries(rows) == [i \in 1..Len(rows) |-> ToNumeric(rows[i].affordability_index)]

\* (series > threshold).sum() over the rows whose number is in idx.
StrugglingCount(rows, threshold, idx) ==
    Cardinality({i \in idx : Struggling(IndexSeries(rows)[i], threshold)})

\* count / total if total else 0.0
Share(count, total) == IF total # 0 THEN Num(count, total) ELSE Whole(0)

\* The group keys of groupby(area_col): the present areas, sorted ascending.
RECURSIVE SortedAreas(_)
SortedAreas(S) ==
    IF S = {} THEN <<>>
    ELSE LET least == CHOOSE x \in S : \A y \in S : y = x \/ StrLess(x.s, y.s)
         IN <<least>> \o SortedAreas(S \ {least})

GroupKeys(rows) ==
    SortedAreas({rows[i].area : i \in {j \in 1..Len(rows) : rows[j].area.k # "nan"}})

\* PerArea with total counting only the rows whose index is present.
PerArea_present_total(rows, threshold) ==
    LET keys == GroupKeys(rows)
    IN [g \in 1..Len(keys) |->
            LET members == {i \in 1..Len(rows) : rows[i].area = keys[g]}
                count == StrugglingCount(rows, threshold, members)
                total == Cardinality({i \in members : ~IsNaN(IndexSeries(rows)[i])})
            IN [ area |-> keys[g], struggling_count |-> count, total |-> total,
                 struggling_pct |-> Share(count, total) ]]

\* Lines 319-325: the per-area rows.
PerArea(rows, threshold) ==
    LET keys == GroupKeys(rows)
    IN [g \in 1..Len(keys) |->
            LET members == {i \in 1..Len(rows) : rows[i].area = keys[g]}
                count == StrugglingCount(rows, threshold, members)
                total == Cardinality(members)
            IN [ area |-> keys[g], struggling_count |-> count, total |-> total,
                 struggling_pct |-> Share(count, total) ]]

\* estimate_struggling: (overall_count, overall_pct, per_area).
estimate_struggling(rows, threshold) ==
    LET series == IndexSeries(rows)
        overall_total == NotNaCount(series)
        overall_count == StrugglingCount(rows, threshold, 1..Len(rows))
    IN [ overall_count |-> overall_count,
         overall_pct |-> Share(overall_count, overall_total),
         per_area |-> PerArea(rows, threshold) ]

\* The cells the specification enumerates.
AggAreas == {AreaA, AreaB, Missing}
AggIndices == {NaN, Whole(10), Whole(50), Whole(60), PosInf}
AggRows == {AggRow(a, x) : a \in AggAreas, x \in AggIndices}
Thresholds == {Whole(50), Whole(10)}

\* The spec's example: the indices 10, 60, 55, 20 and missing.
EsExample ==
    << AggRow(AreaA, Whole(10)), AggRow(AreaA, Whole(60)), AggRow(AreaB, Whole(55)),
       AggRow(AreaB, Whole(20)), AggRow(AreaA, NaN) >>

InitStruggling ==
    /\ es_df \in SeqsOf(AggRows, 0, MaxRows) \cup {EsExample}
    /\ es_threshold \in Thresholds
    /\ es_result = Pending
    /\ IdleCa /\ IdleCl /\ IdleIn /\ IdleDc /\ IdleRa /\ IdleApp

EstimateStrugglingCall ==
    /\ es_result = Pending
    /\ es_result' = estimate_struggling(es_df, es_threshold)
    /\ UNCHANGED <<es_df, es_threshold>>
    /\ UNCHANGED <<vars_ca, vars_cl, vars_in, vars_dc, vars_ra, vars_app>>

SpecStruggling == InitStruggling /\ [][EstimateStrugglingCall]_vars

EsDone == es_result # Idle /\ es_result # Pending

(***************************************************************************)
(* Claims about estimate_struggling.                                       *)
(***************************************************************************)
\* The rows whose index is a number (or an infinity) strictly above the threshold.
AboveThreshold ==
    {i \in 1..Len(es_df) :
        LET x == es_df[i].affordability_index
        IN \/ x = PosInf
           \/ x.k = "num" /\ x.n * es_threshold.d > es_threshold.n * x.d}

\* The rows whose index is not missing.
WithIndex == {i \in 1..Len(es_df) : es_df[i].affordability_index.k \in {"num", "inf"}}

\* C8: overallCount is the number of rows whose index is strictly greater than
\* the threshold (a missing index never counts), and overallFraction is
\* overallCount divided by the number of rows with a non-missing index, 0.0 when
\* there is none; [10, 60, 55, 20, missing] with threshold 50 gives 2 of 4, 0.5.
C8_OverallCountAndFraction ==
    EsDone =>
        /\ es_result.overall_count = Cardinality(AboveThreshold)
        /\ es_result.overall_pct.k = "num"
        /\ IF WithIndex = {}
           THEN es_result.overall_pct = Whole(0)
           ELSE es_result.overall_pct.n * Cardinality(WithIndex)
                    = es_result.overall_count * es_result.overall_pct.d
        /\ (es_df = EsExample /\ es_threshold = Whole(50)) =>
                /\ es_result.overall_count = 2
                /\ Cardinality(WithIndex) = 4
                /\ es_result.overall_pct = Num(1, 2)

\* C8 witness: the example table has been counted: 2 rows above 50, fraction 1/2.
C8_Witness ==
    /\ EsDone
    /\ es_df = EsExample /\ es_threshold = Whole(50)
    /\ es_result.overall_count = 2 /\ es_result.overall_pct = Num(1, 2)

(***************************************************************************)
(* recommend_actions (utils.py).  A recommendation is modelled by the area *)
(* and the index it names; the index is kept as the row holds it and as    *)
(* the text shows it, with one decimal.                                    *)
(***************************************************************************)
\* "Insufficient data to generate recommendations."
InsufficientData == [kind |-> "insufficient"]

\* Line 253: df[[area_col, "affordability_index"]].dropna()
RECURSIVE DropNaRows(_)
DropNaRows(rows) ==
    IF rows = <<>> THEN <<>>
    ELSE IF Head(rows).area.k = "nan" \/ IsNaN(Head(rows).affordability_index)
         THEN DropNaRows(Tail(rows))
         ELSE <<Head(rows)>> \o DropNaRows(Tail(rows))

\* The orders sort_values("affordability_index", ascending=False) may give the
\* rows of s: every arrangement with the indices descending.  The default sort
\* is not stable, so rows with equal indices may come in any order.
SortedDescending(s) ==
    { [i \in 1..Len(s) |-> s[perm[i]]] :
        perm \in { f \in [1..Len(s) -> 1..Len(s)] :
                    /\ \A i, j \in 1..Len(s) : i # j => f[i] # f[j]
                    /\ \A i \in 1..(Len(s) - 1) :
                            FLe(s[f[i + 1]].affordability_index,
                                s[f[i]].affordability_index) } }

\* head(n) that takes one row less than asked.
Head_n_short(s, n) == SubSeq(s, 1, IF n - 1 < Len(s) THEN n - 1 ELSE Len(s))

\* DataFrame.head(n): the first n rows; all but the last -n rows when n < 0.
Head_n(s, n) ==
    IF n >= 0
    THEN SubSeq(s, 1, IF n < Len(s) THEN n ELSE Len(s))
    ELSE SubSeq(s, 1, IF Len(s) + n > 0 THEN Len(s) + n ELSE 0)

\* f"{idx:.1f}": the number of tenths nearest to idx (ties to even), or "inf".
OneDecimal(x) ==
    IF x.k = "inf" THEN [inf |-> TRUE, tenths |-> x.n]
    ELSE LET q == (10 * x.n) \div x.d
             r == (10 * x.n) % x.d
             up == 2 * r > x.d \/ (2 * r = x.d /\ q % 2 = 1)
         IN [inf |-> FALSE, tenths |-> IF up THEN q + 1 ELSE q]

\* Lines 258-263: the recommendation of one row.
Recommendation(row) ==
    [ kind |-> "stress", area |-> row.area, index |-> row.affordability_index,
      shown |-> OneDecimal(row.affordability_index) ]

\* recommend_actions, for one of the orders the sort may give.
recommend_actions(sorted, top_k) ==
    IF sorted = <<>> THEN <<InsufficientData>>
    ELSE LET worst == Head_n(sorted, top_k)
         IN [i \in 1..Len(worst) |-> Recommendation(worst[i])]

\* The cells the specification enumerates.
RaIndices == {NaN, Whole(10), Num(552, 10), Whole(60)}
RaRows == {AggRow(a, x) : a \in AggAreas, x \in RaIndices}

InitRecommend ==
    /\ ra_df \in SeqsOf(RaRows, 0, MaxRows)
    /\ ra_top_k \in 0..MaxTopK
    /\ ra_result = Pending
    /\ IdleCa /\ IdleCl /\ IdleIn /\ IdleDc /\ IdleEs /\ IdleApp

RecommendActionsCall ==
    /\ ra_result = Pending
    /\ \E sorted \in SortedDescending(DropNaRows(ra_df)) :
            ra_result' = [recs |-> recommend_actions(sorted, ra_top_k)]
    /\ UNCHANGED <<ra_df, ra_top_k>>
    /\ UNCHANGED <<vars_ca, vars_cl, vars_in, vars_dc, vars_es, vars_app>>

SpecRecommend == InitRecommend /\ [][RecommendActionsCall]_vars

RaDone == ra_result # Idle /\ ra_result # Pending

(***************************************************************************)
(* Claims about recommend_actions.                                         *)
(***************************************************************************)
\* The list recommend_actions returned.
Recs == ra_result.recs

\* The rows with both the area and the index present.
ValidRows ==
    {i \in 1..Len(ra_df) :
        ra_df[i].area.k = "str" /\ ra_df[i].affordability_index.k \in {"num", "inf"}}

Min(a, b) == IF a < b THEN a ELSE b

\* x > y for two present indices.
Above(x, y) ==
    IF x.k = "inf" \/ y.k = "inf"
    THEN (x = PosInf /\ y # PosInf) \/ (y = NegInf /\ x # NegInf)
    ELSE x.n * y.d > y.n * x.d

\* The recommendations are those of distinct valid rows, one per row, and no
\* valid row left out has a higher index than a row taken.
TakenFromTheTop ==
    \E f \in [1..Len(Recs) -> ValidRows] :
        /\ \A i, j \in 1..Len(Recs) : i # j => f[i] # f[j]
        /\ \A i \in 1..Len(Recs) :
                /\ Recs[i].kind = "stress"
                /\ Recs[i].area = ra_df[f[i]].area
                /\ Recs[i].index = ra_df[f[i]].affordability_index
        /\ \A i \in 1..Len(Recs) :
                \A r \in ValidRows \ {f[j] : j \in 1..Len(Recs)} :
                    ~Above(ra_df[r].affordability_index, Recs[i].index)

\* C9 as stated: for every topK, with v >= 1 valid rows the result is exactly
\* min(topK, v) recommendations, one per row, of the rows with the highest
\* indices, sorted strictly descending by index; with v = 0 it is the single
\* insufficient-data message.
C9_AsStated ==
    RaDone =>
        IF ValidRows = {} THEN Recs = <<InsufficientData>>
        ELSE /\ Len(Recs) = Min(ra_top_k, Cardinality(ValidRows))
             /\ TakenFromTheTop
             /\ \A i \in 1..(Len(Recs) - 1) :
                    Above(Recs[i].index, Recs[i + 1].index)

\* C9 as amended: for every topK >= 0, with v >= 1 valid rows the result is
\* exactly min(topK, v) recommendations, one per row, of the rows with the
\* highest indices, sorted descending by index with equal indices allowed next
\* to each other; with v = 0 it is the single insufficient-data message, for
\* every topK.
C9_TopKDescending ==
    RaDone =>
        IF ValidRows = {} THEN Recs = <<InsufficientData>>
        ELSE ra_top_k >= 0 =>
                /\ Len(Recs) = Min(ra_top_k, Cardinality(ValidRows))
                /\ TakenFromTheTop
                /\ \A i \in 1..(Len(Recs) - 1) :
                        ~Above(Recs[i + 1].index, Recs[i].index)

\* C9 witness: a table with fewer valid rows than topK, two of them, has been
\* given one recommendation per valid row, the higher index first.
C9_Witness ==
    /\ RaDone
    /\ Cardinality(ValidRows) = 2 /\ ra_top_k = 3
    /\ Len(Recs) = 2
    /\ Recs[1].kind = "stress"
    /\ Above(Recs[1].index, Recs[2].index)

(***************************************************************************)
(* app.py: one run of the script after get_data: the income-group          *)
(* segmentation (lines 106-120), the sidebar filter (lines 122-124), and   *)
(* the rerun Streamlit starts when the sidebar selection changes.  cached  *)
(* is the table get_data returns (the same on every run), df the script's  *)
(* table.  A row holds its income cell and its income_group.               *)
(***************************************************************************)
IncomeGroups == {"low-income", "median-income", "high-income"}
\* Line 47: the options of the sidebar's selectbox.
SelectOptions == {"All"} \cup IncomeGroups
\* income_group of a row before the segmentation has run.
Unlabelled == "-"

\* The percentiles of line 109.
LowPercentile == 33
MedianPercentile == 66

\* x + y and x - y on finite floats.
FAdd(x, y) == Num(x.n * y.d + y.n * x.d, x.d * y.d)
FSub(x, y) == Num(x.n * y.d - y.n * x.d, x.d * y.d)

\* Series.quantile(p / 100): linear interpolation between the two present
\* values around position (p / 100) * (n - 1) of the sorted values; NaN when no
\* value is present.
Quantile(series, p) ==
    LET v == SortFloats(DropNa(series))
        n == Len(v)
        lo == (p * (n - 1)) \div 100
        frac == Num((p * (n - 1)) % 100, 100)
    IN IF n = 0 THEN NaN
       ELSE IF lo + 1 >= n THEN v[n]
       ELSE FAdd(v[lo + 1], FMul(FSub(v[lo + 2], v[lo + 1]), frac))

\* label_income with the bounds exclusive.
label_income_lt(v, q1, q2) ==
    IF IsNaN(v) THEN "unknown"
    ELSE IF FLt(v, q1) THEN "low-income"
    ELSE IF FLt(v, q2) THEN "median-income"
    ELSE "high-income"

\* Lines 110-117: label_income.
label_income(v, q1, q2) ==
    IF IsNaN(v) THEN "unknown"
    ELSE IF FLe(v, q1) THEN "low-income"
    ELSE IF FLe(v, q2) THEN "median-income"
    ELSE "high-income"

\* Lines 107-120: the column income_group of the table.
IncomeGroupColumn(table) ==
    IF table.has_income
    THEN LET income_values == [i \in 1..Len(table.rows) |-> ToNumeric(table.rows[i].income)]
             q1 == Quantile(income_values, LowPercentile)
             q2 == Quantile(income_values, MedianPercentile)
         IN [i \in 1..Len(table.rows) |-> label_income(income_values[i], q1, q2)]
    ELSE [i \in 1..Len(table.rows) |-> "unknown"]

\* df[df["income_group"] == income_group_select]
RECURSIVE RowsOfGroup(_, _)
RowsOfGroup(rows, group) ==
    IF rows = <<>> THEN <<>>
    ELSE IF Head(rows).income_group = group
         THEN <<Head(rows)>> \o RowsOfGroup(Tail(rows), group)
         ELSE RowsOfGroup(Tail(rows), group)

\* The income cells the specification enumerates.
AppIncomes == {NaN, Text, Whole(1), Whole(2), Whole(3), Whole(5)}
AppRow(v) == [income |-> v, income_group |-> Unlabelled]

InitApp ==
    /\ \E has_income \in BOOLEAN :
        \E cells \in SeqsOf(IF has_income THEN AppIncomes ELSE {NaN}, 1, MaxRows) :
            cached = [ has_income |-> has_income,
                       rows |-> [i \in 1..Len(cells) |-> AppRow(cells[i])] ]
    /\ df = cached
    /\ income_group_select = "All"
    /\ pc = "loaded"
    /\ IdleCa /\ IdleCl /\ IdleIn /\ IdleDc /\ IdleEs /\ IdleRa

\* Lines 106-120: every row of df is given its income_group.
LabelIncome ==
    /\ pc = "loaded"
    /\ df' = [df EXCEPT !.rows =
                [i \in 1..Len(df.rows) |->
                    [df.rows[i] EXCEPT !.income_group = IncomeGroupColumn(df)[i]]]]
    /\ pc' = "labelled"
    /\ UNCHANGED <<cached, income_group_select>>
    /\ UNCHANGED <<vars_ca, vars_cl, vars_in, vars_dc, vars_es, vars_ra>>

\* Lines 122-124: the sidebar filter; the rest of the script reads df.
ApplyFilter ==
    /\ pc = "labelled"
    /\ df' = IF income_group_select # "All"
             THEN [df EXCEPT !.rows = RowsOfGroup(df.rows, income_group_select)]
             ELSE df
    /\ pc' = "filtered"
    /\ UNCHANGED <<cached, income_group_select>>
    /\ UNCHANGED <<vars_ca, vars_cl, vars_in, vars_dc, vars_es, vars_ra>>

\* The user picks an option in the sidebar: Streamlit runs the script again
\* from the top, with the table get_data has cached.
Rerun ==
    /\ pc = "filtered"
    /\ \E option \in SelectOptions : income_group_select' = option
    /\ df' = cached
    /\ pc' = "loaded"
    /\ UNCHANGED cached
    /\ UNCHANGED <<vars_ca, vars_cl, vars_in, vars_dc, vars_es, vars_ra>>

NextApp == LabelIncome \/ ApplyFilter \/ Rerun

SpecApp == InitApp /\ [][NextApp]_vars

(***************************************************************************)
(* Claims about the income-group segmentation.                             *)
(***************************************************************************)
\* The present incomes of a table, sorted ascending.
PresentIncomes(table) ==
    SortFloats(DropNa([i \in 1..Len(table.rows) |-> ToNumeric(table.rows[i].income)]))

\* v <= the p-th percentile of the sorted values s, by linear interpolation
\* between the neighbours of position p * (n - 1) / 100, in integers.
AtMostPercentile(v, s, p) ==
    LET n == Len(s)
        lo == (p * (n - 1)) \div 100
        r == (p * (n - 1)) % 100
        a == s[lo + 1]
        b == IF lo + 2 <= n THEN s[lo + 2] ELSE s[n]
    IN 100 * v.n * a.d * b.d <= (100 * a.n * b.d + r * (b.n * a.d - a.n * b.d)) * v.d

\* The label of a row by the percentiles of the incomes of a table.
LabelBy(row, table) ==
    IF ~table.has_income \/ ToNumeric(row.income).k = "nan" THEN "unknown"
    ELSE IF AtMostPercentile(row.income, PresentIncomes(table), 33) THEN "low-income"
    ELSE IF AtMostPercentile(row.income, PresentIncomes(table), 66) THEN "median-income"
    ELSE "high-income"

Filtered == pc = "filtered" /\ income_group_select # "All"

\* C10 as stated: the segmentation is recomputed when the row set changes:
\* after the filter by income group, every remaining row's income_group is the
\* label its income gets from the 33rd/66th percentiles of the filtered table.
C10_RelabelledAfterFilter ==
    Filtered => \A i \in 1..Len(df.rows) : df.rows[i].income_group = LabelBy(df.rows[i], df)

\* C10 as amended: the segmentation is computed once per run, before the
\* filter, and not again: after the filter by income group, every remaining
\* row's income_group is the label its income gets from the 33rd/66th
\* percentiles of the table before filtering (low-income if <= 33rd,
\* median-income if <= 66th, else high-income; unknown if the income is
\* missing), and it is the selected group.
C10_LabelledBeforeFilter ==
    Filtered =>
        \A i \in 1..Len(df.rows) :
            /\ df.rows[i].income_group = LabelBy(df.rows[i], cached)
            /\ df.rows[i].income_group = income_group_select

\* C10 witness: a filter by income group has removed a row of the table and
\* kept another.
C10_Witness ==
    /\ Filtered
    /\ Len(df.rows) >= 1
    /\ Len(df.rows) < Len(cached.rows)

(***************************************************************************)
(* Claims about the synthesized income of compute_affordability.           *)
(***************************************************************************)
\* Whether the call reads the table's cost column: rent_col names it, or
\* rent_col is None and the column is a price column.
CostColumnUsed == ca_rent_col # None \/ ca_df.cost_name = PriceName

\* The rows with a present cost that is not zero.
RowsWithCost ==
    {i \in 1..Len(ca_df.rows) :
        CostColumnUsed /\ ca_df.rows[i].cost.k = "num" /\ ca_df.rows[i].cost.n # 0}

\* Whether the largest present cost exceeds 1,000,000.
MaxCostAboveMillion ==
    CostColumnUsed /\ \E i \in 1..Len(ca_df.rows) :
        ca_df.rows[i].cost.k = "num"
            /\ ca_df.rows[i].cost.n > 1000000 * ca_df.rows[i].cost.d

\* C11: without an income column, every row with a present non-zero cost gets
\* one and the same index, whatever its cost: 100/3.5 (class Affordable) when
\* the cost column is monthly-labelled or its maximum is at most 1,000,000, and
\* 100/0.14 (class Expensive) when it is not monthly-labelled and its maximum
\* exceeds 1,000,000; so all such rows of one table get the same class.
C11_SynthesizedIncomeGivesOneIndex ==
    (CaDone /\ ca_income_col = None) =>
        /\ \A i \in RowsWithCost :
                IF ca_df.cost_name \in MonthlyNamed \/ ~MaxCostAboveMillion
                THEN /\ CaIndex(i).k = "num"
                     /\ 7 * CaIndex(i).n = 200 * CaIndex(i).d
                     /\ CaClass(i) = "Affordable"
                ELSE /\ CaIndex(i).k = "num"
                     /\ 14 * CaIndex(i).n = 10000 * CaIndex(i).d
                     /\ CaClass(i) = "Expensive"
        /\ \A i, j \in RowsWithCost :
                CaIndex(i) = CaIndex(j) /\ CaClass(i) = CaClass(j)

\* C11 witness: a table without an income column whose cost column is not
\* monthly-labelled and holds the costs 300 and 1200000 has been indexed: both
\* rows are Expensive with the same index.
C11_Witness ==
    /\ CaDone /\ ca_income_col = None
    /\ ca_rent_col = RentName
    /\ Len(ca_df.rows) = 2
    /\ ca_df.rows[1].cost = Whole(300) /\ ca_df.rows[2].cost = Whole(1200000)
    /\ CaIndex(1) = CaIndex(2) /\ CaClass(1) = "Expensive" /\ CaClass(2) = "Expensive"

(***************************************************************************)
(* Claims about the per-area rows of estimate_struggling.                  *)
(***************************************************************************)
RECURSIVE SumOf(_, _)
SumOf(per_area, field) ==
    IF per_area = <<>> THEN 0
    ELSE Head(per_area)[field] + SumOf(Tail(per_area), field)

EveryRowHasArea == \A i \in 1..Len(es_df) : es_df[i].area.k = "str"

\* C12: each area's total is the number of all rows of that area, the rows with
\* a missing index included (they count as not struggling); so over a table in
\* which every row has an area the per-area totals sum to the table's row count
\* and the per-area struggling counts sum to overallCount.
C12_PerAreaTotalsCountAllRows ==
    EsDone =>
        /\ \A g \in 1..Len(es_result.per_area) :
            LET r == es_result.per_area[g]
                of_area == {i \in 1..Len(es_df) : es_df[i].area = r.area}
            IN /\ r.total = Cardinality(of_area)
               /\ r.struggling_count = Cardinality(of_area \cap AboveThreshold)
        /\ EveryRowHasArea =>
            /\ \A i \in 1..Len(es_df) :
                    \E g \in 1..Len(es_result.per_area) :
                        es_result.per_area[g].area = es_df[i].area
            /\ \A g, h \in 1..Len(es_result.per_area) :
                    g # h => es_result.per_area[g].area # es_result.per_area[h].area
            /\ SumOf(es_result.per_area, "total") = Len(es_df)
            /\ SumOf(es_result.per_area, "struggling_count") = es_result.overall_count

\* C12 witness: the example table, every row with an area and one with a
\* missing index, has been aggregated: the totals sum to its 5 rows, one more
\* than the 4 rows with a present index.
C12_Witness ==
    /\ EsDone
    /\ es_df = EsExample /\ es_threshold = Whole(50)
    /\ SumOf(es_result.per_area, "total") = 5
    /\ Cardinality(WithIndex) = 4
    /\ SumOf(es_result.per_area, "struggling_count") = 2

====
